---- MODULE Spec2Model ----
(***************************************************************************)
(* Fixed-size ECDSA signatures (ecdsa/src/lib.rs): the r || s byte buffer, *)
(* its constructors, its conversion to and from ASN.1 DER and the low-S    *)
(* normalization of the s half.                                            *)
(***************************************************************************)
EXTENDS Integers, Sequences, FiniteSets, TLC

\* Largest curve element size (bytes per scalar) explored.
MaxElementSize == 2

----------------------------------------------------------------------------
\* Curve capability (external): order of the scalar field per element size.
\* Element size 1 is the toy curve of order 251.
FieldOrder(n) ==
  CASE n = 1 -> 251
    [] n = 2 -> 65521
    [] OTHER -> 16777213

\* Byte values explored for the scalars of a curve of element size n.
ByteVals(n) ==
  IF n = 1 THEN {0, 1, 50, 51, 125, 126, 127, 128, 200, 250, 251, 255}
  ELSE IF n = 2 THEN {0, 1, 127, 128, 255}
  ELSE {0, 1, 128, 255}

Rep(b, k) == [i \in 1..k |-> b]

\* Big-endian value of a byte string.
RECURSIVE BytesToNat(_)
BytesToNat(b) ==
  IF Len(b) = 0 THEN 0
  ELSE 256 * BytesToNat(SubSeq(b, 1, Len(b) - 1)) + b[Len(b)]

\* Big-endian encoding of v over exactly k bytes.
RECURSIVE NatToBytes(_, _)
NatToBytes(v, k) ==
  IF k = 0 THEN <<>>
  ELSE Append(NatToBytes(v \div 256, k - 1), v % 256)

\* <[u8]>::copy_from_slice on buf[begin..end] (0-based, end exclusive).
copy_from_slice(buf, begin, end, src) ==
  [i \in 1..Len(buf) |-> IF begin < i /\ i <= end THEN src[i - begin] ELSE buf[i]]

\* SignatureSize<C> = ElementSize + ElementSize
SignatureSize(n) == n + n

\* SignatureBytes::<C>::default()
SignatureBytes(n) == Rep(0, SignatureSize(n))

----------------------------------------------------------------------------
\* Signature::from_scalars
from_scalars_swapped(rb, sb, n) ==
  LET scalar_size == n
      b1 == copy_from_slice(SignatureBytes(n), 0, scalar_size, sb)
  IN copy_from_slice(b1, scalar_size, SignatureSize(n), rb)

from_scalars(rb, sb, n) ==
  LET scalar_size == n
      b1 == copy_from_slice(SignatureBytes(n), 0, scalar_size, rb)
  IN copy_from_slice(b1, scalar_size, SignatureSize(n), sb)

\* Signature::r
r(bytes, n) == SubSeq(bytes, 1, n)

\* Signature::s
s(bytes, n) == SubSeq(bytes, n + 1, Len(bytes))

\* AsRef<[u8]>::as_ref
as_ref(bytes) == bytes

\* TryFrom<&[u8]>::try_from
try_from_atleast(b, n) ==
  IF Len(b) >= SignatureSize(n)
  THEN [tag |-> "ok", bytes |-> b]
  ELSE [tag |-> "err", bytes |-> <<>>]

try_from(b, n) ==
  IF Len(b) = SignatureSize(n)
  THEN [tag |-> "ok", bytes |-> b]
  ELSE [tag |-> "err", bytes |-> <<>>]

----------------------------------------------------------------------------
\* Scalar arithmetic capability (external to the crate).

\* FromBytes::from_bytes for C::Scalar: None unless the value is below the order.
from_bytes(b, n) ==
  IF BytesToNat(b) < FieldOrder(n)
  THEN [some |-> TRUE, v |-> BytesToNat(b)]
  ELSE [some |-> FALSE, v |-> 0]

\* NormalizeLow::normalize_low: negate when above half the order.
normalize_low(v, n) ==
  IF v > FieldOrder(n) \div 2
  THEN [low |-> FieldOrder(n) - v, was_high |-> TRUE]
  ELSE [low |-> v, was_high |-> FALSE]

\* Signature::normalize_s
normalize_s_whole(bytes, n) ==
  LET s_option == from_bytes(s(bytes, n), n)
  IN IF s_option.some
     THEN LET nl == normalize_low(s_option.v, n)
          IN IF nl.was_high
             THEN [tag |-> "true",
                   bytes |-> copy_from_slice(bytes, 0, n, NatToBytes(nl.low, n))]
             ELSE [tag |-> "false", bytes |-> bytes]
     ELSE [tag |-> "err", bytes |-> bytes]

normalize_s_nocheck(bytes, n) ==
  LET v == BytesToNat(s(bytes, n))
      nl == normalize_low(v % FieldOrder(n), n)
  IN IF nl.was_high
     THEN [tag |-> "true",
           bytes |-> copy_from_slice(bytes, n, Len(bytes), NatToBytes(nl.low, n))]
     ELSE [tag |-> "false", bytes |-> bytes]

normalize_s_keep(bytes, n) ==
  LET s_option == from_bytes(s(bytes, n), n)
  IN IF s_option.some
     THEN LET nl == normalize_low(s_option.v, n)
          IN IF nl.was_high
             THEN [tag |-> "true", bytes |-> bytes]
             ELSE [tag |-> "false", bytes |-> bytes]
     ELSE [tag |-> "err", bytes |-> bytes]

normalize_s_inverted(bytes, n) ==
  LET s_option == from_bytes(s(bytes, n), n)
  IN IF s_option.some
     THEN LET nl == normalize_low(s_option.v, n)
          IN IF ~nl.was_high
             THEN [tag |-> "true",
                   bytes |-> copy_from_slice(bytes, n, Len(bytes), NatToBytes(nl.low, n))]
             ELSE [tag |-> "false", bytes |-> bytes]
     ELSE [tag |-> "err", bytes |-> bytes]

normalize_s(bytes, n) ==
  LET s_option == from_bytes(s(bytes, n), n)
  IN IF s_option.some
     THEN LET nl == normalize_low(s_option.v, n)
          IN IF nl.was_high
             THEN [tag |-> "true",
                   bytes |-> copy_from_slice(bytes, n, Len(bytes), NatToBytes(nl.low, n))]
             ELSE [tag |-> "false", bytes |-> bytes]
     ELSE [tag |-> "err", bytes |-> bytes]

----------------------------------------------------------------------------
\* ASN.1 DER document form (module asn1).

SEQUENCE_TAG == 48
INTEGER_TAG == 2

\* Strip leading zero bytes down to the minimal representation.
RECURSIVE strip_zeroes(_)
strip_zeroes(x) ==
  IF Len(x) > 1 /\ x[1] = 0 THEN strip_zeroes(Tail(x)) ELSE x

\* Value bytes of the DER INTEGER for a big-endian scalar.
int_value(x) ==
  LET m == strip_zeroes(x)
  IN IF m[1] >= 128 THEN <<0>> \o m ELSE m

\* DER definite length: short form under 128, long form otherwise.
der_length(l) ==
  IF l < 128 THEN <<l>>
  ELSE IF l < 256 THEN <<129, l>>
  ELSE <<130, l \div 256, l % 256>>

\* One INTEGER TLV.
serialize_int(x) ==
  LET v == int_value(x) IN <<INTEGER_TAG>> \o der_length(Len(v)) \o v

\* asn1::Signature::from_scalars: SEQUENCE { INTEGER r, INTEGER s }.
asn1_from_scalars(rb, sb) ==
  LET body == serialize_int(rb) \o serialize_int(sb)
  IN <<SEQUENCE_TAG>> \o der_length(Len(body)) \o body

\* Parse a DER length at the head of b: [ok, len, used].
parse_length(b) ==
  IF Len(b) < 1 THEN [ok |-> FALSE, len |-> 0, used |-> 0]
  ELSE IF b[1] < 128 THEN [ok |-> TRUE, len |-> b[1], used |-> 1]
  ELSE LET k == b[1] - 128
       IN IF k = 0 \/ k > 2 \/ Len(b) < 1 + k
          THEN [ok |-> FALSE, len |-> 0, used |-> 0]
          ELSE LET l == BytesToNat(SubSeq(b, 2, 1 + k))
               IN IF l < 128 \/ (k = 2 /\ l < 256)
                  THEN [ok |-> FALSE, len |-> 0, used |-> 0]
                  ELSE [ok |-> TRUE, len |-> l, used |-> 1 + k]

\* Parse one INTEGER TLV at the head of b: [ok, int, rest]; int has its
\* sign-padding byte stripped.
parse_int(b) ==
  LET bad == [ok |-> FALSE, int |-> <<>>, rest |-> <<>>]
  IN IF Len(b) < 1 \/ b[1] # INTEGER_TAG THEN bad
     ELSE LET pl == parse_length(Tail(b))
          IN IF ~pl.ok \/ pl.len = 0 \/ Len(b) < 1 + pl.used + pl.len THEN bad
             ELSE LET v == SubSeq(b, 2 + pl.used, 1 + pl.used + pl.len)
                      rest == SubSeq(b, 2 + pl.used + pl.len, Len(b))
                  IN IF v[1] >= 128 THEN bad
                     ELSE IF Len(v) >= 2 /\ v[1] = 0 /\ v[2] < 128 THEN bad
                     ELSE [ok |-> TRUE,
                           int |-> IF v[1] = 0 THEN Tail(v) ELSE v,
                           rest |-> rest]

\* asn1::Signature::try_from: decode a DER document into its two integers.
asn1_try_from(b) ==
  LET bad == [tag |-> "err", r |-> <<>>, s |-> <<>>]
  IN IF Len(b) < 1 \/ b[1] # SEQUENCE_TAG THEN bad
     ELSE LET pl == parse_length(Tail(b))
          IN IF ~pl.ok \/ pl.len # Len(b) - 1 - pl.used THEN bad
             ELSE LET pr == parse_int(SubSeq(b, 2 + pl.used, Len(b)))
                  IN IF ~pr.ok THEN bad
                     ELSE LET ps == parse_int(pr.rest)
                          IN IF ~ps.ok \/ Len(ps.rest) # 0 THEN bad
                             ELSE [tag |-> "ok", r |-> pr.int, s |-> ps.int]

\* impl From<asn1::Signature> for Signature: right-align r and s.
from_leftalign(doc, n) ==
  IF Len(doc.r) > n \/ Len(doc.s) > SignatureSize(n)
  THEN [tag |-> "panic", bytes |-> <<>>]
  ELSE LET b1 == copy_from_slice(SignatureBytes(n), 0, Len(doc.r), doc.r)
           s_begin == SignatureSize(n) - Len(doc.s)
       IN [tag |-> "ok",
           bytes |-> copy_from_slice(b1, s_begin, SignatureSize(n), doc.s)]

from_rbegin_s(doc, n) ==
  IF Len(doc.s) > n \/ Len(doc.r) # Len(doc.s)
  THEN [tag |-> "panic", bytes |-> <<>>]
  ELSE LET r_begin == n - Len(doc.s)
           s_begin == SignatureSize(n) - Len(doc.s)
           b1 == copy_from_slice(SignatureBytes(n), r_begin, n, doc.r)
       IN [tag |-> "ok",
           bytes |-> copy_from_slice(b1, s_begin, SignatureSize(n), doc.s)]

from(doc, n) ==
  LET bytes == SignatureBytes(n)
      scalar_size == n
  IN IF Len(doc.r) > scalar_size \/ Len(doc.s) > Len(bytes)
     THEN [tag |-> "panic", bytes |-> <<>>]
     ELSE LET r_begin == scalar_size - Len(doc.r)
              s_begin == Len(bytes) - Len(doc.s)
              b1 == copy_from_slice(bytes, r_begin, scalar_size, doc.r)
          IN [tag |-> "ok",
              bytes |-> copy_from_slice(b1, s_begin, Len(bytes), doc.s)]

\* Signature::from_asn1
from_asn1(b, n) ==
  LET doc == asn1_try_from(b)
  IN IF doc.tag = "ok" THEN from(doc, n) ELSE [tag |-> "err", bytes |-> <<>>]

\* Signature::to_asn1 (the bytes of the resulting document)
to_asn1_s_twice(bytes, n) == asn1_from_scalars(s(bytes, n), s(bytes, n))

to_asn1(bytes, n) == asn1_from_scalars(r(bytes, n), s(bytes, n))

----------------------------------------------------------------------------
\* Inputs.

\* ElementBytes<C>: every byte string of exactly n bytes over ByteVals(n).
Scalars(n) == [1..n -> ByteVals(n)]

Iota(k, base) == [i \in 1..k |-> base + i]

\* Byte slices handed to Signature::try_from: every length from 0 to 2n+1.
Slices(n) ==
  {ra \o sa : ra \in Scalars(n), sa \in Scalars(n)}
    \cup {Rep(b, k) : b \in {0, 255}, k \in 0..(SignatureSize(n) + 1)}

\* Value bytes of the INTEGERs inside the DER documents handed to from_asn1.
Contents(n) ==
  {Iota(k, base) : k \in 0..(SignatureSize(n) + 1), base \in {16, 32}}
    \cup {<<0>>, <<128>>, <<0, 0>>, <<0, 1>>}
    \cup {<<0>> \o Rep(128, k) : k \in 1..n}

\* A well-framed document around two raw INTEGER contents.
Document(rc, sc) ==
  LET body == <<INTEGER_TAG>> \o der_length(Len(rc)) \o rc
                \o <<INTEGER_TAG>> \o der_length(Len(sc)) \o sc
  IN <<SEQUENCE_TAG>> \o der_length(Len(body)) \o body

\* Badly framed variants of a document.
Malformed(d) ==
  {<<>>, <<49>> \o Tail(d), d \o <<0>>, SubSeq(d, 1, Len(d) - 1),
   <<d[1], d[2] + 1>> \o SubSeq(d, 3, Len(d)),
   <<d[1], d[2], 3>> \o SubSeq(d, 4, Len(d))}

DerInputs(n) ==
  {Document(rc, sc) : rc \in Contents(n), sc \in Contents(n)}
    \cup UNION {Malformed(Document(rc, rc)) : rc \in {Iota(k, 16) : k \in 1..n}}

----------------------------------------------------------------------------
\* State: one Signature<C> instance and the last two calls made on it.

VARIABLES
  ElementSize,  \* C::ElementSize of the curve
  have,         \* a Signature value exists
  sig_bytes,    \* Signature.bytes
  r0,           \* the r half the signature was constructed with
  before,       \* Signature.bytes before the last call
  op,           \* last call
  res,          \* its outcome: "ok", "err", "true", "false", "panic"
  prevOp,       \* the call before it
  prevRes,      \* and its outcome
  arg,          \* input of the last call
  out           \* value returned by the last call

vars == <<ElementSize, have, sig_bytes, r0, before, op, res, prevOp, prevRes, arg, out>>

NoArg == [a |-> <<>>, b |-> <<>>]

Init ==
  /\ ElementSize \in 1..MaxElementSize
  /\ have = FALSE
  /\ sig_bytes = <<>>
  /\ r0 = <<>>
  /\ before = <<>>
  /\ op = "none"
  /\ res = "none"
  /\ prevOp = "none"
  /\ prevRes = "none"
  /\ arg = NoArg
  /\ out = <<>>

Called(o, tag, a, output) ==
  /\ op' = o
  /\ res' = tag
  /\ prevOp' = op
  /\ prevRes' = res
  /\ arg' = a
  /\ out' = output
  /\ before' = sig_bytes
  /\ UNCHANGED ElementSize

Running == res # "panic"

\* No constructor has been called yet: each behaviour follows one instance.
Fresh == op = "none"

\* Signature::from_scalars(r, s)
FromScalars ==
  /\ Fresh
  /\ \E rb \in Scalars(ElementSize), sb \in Scalars(ElementSize) :
       /\ sig_bytes' = from_scalars(rb, sb, ElementSize)
       /\ have' = TRUE
       /\ r0' = rb
       /\ Called("from_scalars", "ok", [a |-> rb, b |-> sb], <<>>)

\* Signature::try_from(bytes)
TryFrom ==
  /\ Fresh
  /\ \E b \in Slices(ElementSize) :
       LET t == try_from(b, ElementSize)
       IN /\ sig_bytes' = t.bytes
          /\ have' = (t.tag = "ok")
          /\ r0' = IF t.tag = "ok" THEN r(t.bytes, ElementSize) ELSE <<>>
          /\ Called("try_from", t.tag, [a |-> b, b |-> <<>>], <<>>)

\* Signature::from_asn1(bytes) on caller-supplied bytes
FromAsn1 ==
  /\ Fresh
  /\ \E b \in DerInputs(ElementSize) :
       LET t == from_asn1(b, ElementSize)
       IN /\ sig_bytes' = t.bytes
          /\ have' = (t.tag = "ok")
          /\ r0' = IF t.tag = "ok" THEN r(t.bytes, ElementSize) ELSE <<>>
          /\ Called("from_asn1", t.tag, [a |-> b, b |-> <<>>], <<>>)

\* Signature::from_asn1 on the document just produced by to_asn1
FromAsn1Document ==
  /\ Running /\ have /\ op = "to_asn1"
  /\ LET t == from_asn1(out, ElementSize)
     IN /\ sig_bytes' = t.bytes
        /\ have' = (t.tag = "ok")
        /\ r0' = IF t.tag = "ok" THEN r(t.bytes, ElementSize) ELSE <<>>
        /\ Called("from_asn1", t.tag, [a |-> out, b |-> <<>>], <<>>)

\* Signature::r()
R ==
  /\ Running /\ have
  /\ Called("r", "ok", NoArg, r(sig_bytes, ElementSize))
  /\ UNCHANGED <<have, sig_bytes, r0>>

\* Signature::s()
S ==
  /\ Running /\ have
  /\ Called("s", "ok", NoArg, s(sig_bytes, ElementSize))
  /\ UNCHANGED <<have, sig_bytes, r0>>

\* Signature::as_ref()
AsRef ==
  /\ Running /\ have
  /\ Called("as_ref", "ok", NoArg, as_ref(sig_bytes))
  /\ UNCHANGED <<have, sig_bytes, r0>>

\* Signature::to_asn1()
ToAsn1 ==
  /\ Running /\ have
  /\ Called("to_asn1", "ok", NoArg, to_asn1(sig_bytes, ElementSize))
  /\ UNCHANGED <<have, sig_bytes, r0>>

\* Signature::normalize_s()
NormalizeS ==
  /\ Running /\ have
  /\ LET t == normalize_s(sig_bytes, ElementSize)
     IN /\ sig_bytes' = t.bytes
        /\ Called("normalize_s", t.tag, NoArg, <<>>)
  /\ UNCHANGED <<have, r0>>

Next ==
  \/ FromScalars
  \/ TryFrom
  \/ FromAsn1
  \/ FromAsn1Document
  \/ R
  \/ S
  \/ AsRef
  \/ ToAsn1
  \/ NormalizeS

Spec == Init /\ [][Next]_vars

----------------------------------------------------------------------------
\* Properties.

Half(n) == FieldOrder(n) \div 2

ValidScalar(b, n) == BytesToNat(b) < FieldOrder(n)

\* The document decoded from the input of the last from_asn1 call.
Decoded == asn1_try_from(arg.a)

\* C1: from_scalars(r, s) never fails; the buffer is r followed by s
\* (2N bytes) and r() and s() give back the two inputs.
C1_FromScalarsRoundTrip ==
  /\ op = "from_scalars" =>
       /\ res = "ok" /\ have
       /\ Len(sig_bytes) = 2 * ElementSize
       /\ sig_bytes = arg.a \o arg.b
       /\ r(sig_bytes, ElementSize) = arg.a
       /\ s(sig_bytes, ElementSize) = arg.b
  /\ (op = "r" /\ prevOp = "from_scalars") => out = r0

C1_Witness ==
  /\ op = "from_scalars"
  /\ arg.a # arg.b
  /\ arg.a[1] = 255

\* C2: try_from succeeds exactly on slices of 2N bytes, keeps the bytes as
\* they are (no range check) and gives an error on every other length.
C2_TryFromLength ==
  op = "try_from" =>
    /\ (res = "ok") <=> (Len(arg.a) = 2 * ElementSize)
    /\ res = "ok" => have /\ as_ref(sig_bytes) = arg.a
    /\ res # "ok" => res = "err" /\ ~have

C2_Witness ==
  /\ op = "try_from" /\ res = "ok"
  /\ ~ValidScalar(s(sig_bytes, ElementSize), ElementSize)
  /\ ~ValidScalar(r(sig_bytes, ElementSize), ElementSize)

\* C3: on a valid s, normalize_s writes fieldOrder - s over the s half and
\* returns true when s is above half the order, and otherwise returns false
\* and leaves the buffer as it was.
C3_NormalizeS ==
  (op = "normalize_s" /\ ValidScalar(s(before, ElementSize), ElementSize)) =>
    LET sv == BytesToNat(s(before, ElementSize))
    IN IF sv > Half(ElementSize)
       THEN /\ res = "true"
            /\ sig_bytes = r(before, ElementSize)
                             \o NatToBytes(FieldOrder(ElementSize) - sv, ElementSize)
       ELSE /\ res = "false"
            /\ sig_bytes = before

C3_Witness ==
  /\ op = "normalize_s" /\ res = "true"
  /\ ElementSize = 1
  /\ s(before, ElementSize) = <<200>>
  /\ s(sig_bytes, ElementSize) = <<51>>

\* C4 as stated: for every signature the second of two normalize_s calls in
\* a row returns false, changes nothing, and s is at most half the order.
C4_Original ==
  (op = "normalize_s" /\ prevOp = "normalize_s") =>
    /\ res = "false"
    /\ sig_bytes = before
    /\ BytesToNat(s(sig_bytes, ElementSize)) <= Half(ElementSize)

\* C4 amended: when the first call succeeds (s is a valid scalar) the second
\* call returns false, changes nothing and s is at most half the order; when
\* the first call fails the second fails as well and nothing changes.
C4_Idempotent ==
  (op = "normalize_s" /\ prevOp = "normalize_s") =>
    /\ sig_bytes = before
    /\ prevRes # "err" =>
         /\ res = "false"
         /\ BytesToNat(s(sig_bytes, ElementSize)) <= Half(ElementSize)
    /\ prevRes = "err" => res = "err"

C4_Witness ==
  /\ op = "normalize_s" /\ prevOp = "normalize_s"
  /\ prevRes = "true" /\ res = "false"

\* C5: from_asn1 applied to the document of to_asn1 succeeds and gives back
\* the same signature, byte for byte.
C5_Asn1RoundTrip ==
  (op = "from_asn1" /\ prevOp = "to_asn1") =>
    /\ res = "ok" /\ have
    /\ sig_bytes = before

C5_Witness ==
  /\ op = "from_asn1" /\ prevOp = "to_asn1" /\ res = "ok"
  /\ r(sig_bytes, ElementSize) = Rep(0, ElementSize)
  /\ s(sig_bytes, ElementSize)[1] >= 128

\* C6: a decoded document whose r or s is longer than element_size makes
\* from_asn1 return an error: no panic and no Signature.
C6_OverlongIsError ==
  (/\ op = "from_asn1"
   /\ Decoded.tag = "ok"
   /\ (Len(Decoded.r) > ElementSize \/ Len(Decoded.s) > ElementSize)) =>
    /\ res = "err"
    /\ ~have

\* C7: normalize_s fails exactly when s is not a valid scalar, and then no
\* byte of the buffer changes.
C7_NormalizeSError ==
  op = "normalize_s" =>
    /\ (res = "err") <=> ~ValidScalar(s(before, ElementSize), ElementSize)
    /\ res = "err" => sig_bytes = before

C7_Witness ==
  /\ op = "normalize_s" /\ res = "err"
  /\ BytesToNat(s(before, ElementSize)) >= FieldOrder(ElementSize)

\* A minimal, non-negative, non-empty DER INTEGER value of the scalar x.
MinimalInt(v, x) ==
  /\ Len(v) >= 1
  /\ v[1] < 128
  /\ (Len(v) >= 2 /\ v[1] = 0) => v[2] >= 128
  /\ BytesToNat(v) = BytesToNat(x)
  /\ Len(v) <= Len(x) + 1

\* C8: to_asn1 gives SEQUENCE { INTEGER r, INTEGER s } where each INTEGER is
\* the minimal encoding of the scalar: leading zeros stripped, one 0x00 in
\* front exactly when the high bit would be set, never empty.
C8_MinimalIntegers ==
  op = "to_asn1" =>
    LET lr == out[4]
        ls == out[6 + lr]
        vr == SubSeq(out, 5, 4 + lr)
        vs == SubSeq(out, 7 + lr, 6 + lr + ls)
        rb == r(sig_bytes, ElementSize)
        sb == s(sig_bytes, ElementSize)
    IN /\ Len(out) = 6 + lr + ls
       /\ out[1] = 48 /\ out[2] = 4 + lr + ls
       /\ out[3] = 2 /\ out[5 + lr] = 2
       /\ MinimalInt(vr, rb)
       /\ MinimalInt(vs, sb)
       /\ (vr[1] = 0 /\ Len(vr) >= 2) => SubSeq(rb, ElementSize + 2 - Len(vr), ElementSize) = Tail(vr)
       /\ BytesToNat(rb) = 1 => SubSeq(out, 3, 5) = <<2, 1, 1>>
       /\ sb[1] >= 128 => vs = <<0>> \o sb

C8_Witness ==
  /\ op = "to_asn1"
  /\ BytesToNat(r(sig_bytes, ElementSize)) = 1
  /\ s(sig_bytes, ElementSize)[1] = 255
  /\ Len(out) = 6 + 1 + ElementSize + 1

\* C9: decoded integers of at most element_size bytes are right-aligned and
\* zero-padded on the left, each in its own half of the 2N-byte buffer.
C9_RightAligned ==
  (/\ op = "from_asn1"
   /\ Decoded.tag = "ok"
   /\ Len(Decoded.r) <= ElementSize
   /\ Len(Decoded.s) <= ElementSize) =>
    LET lr == Len(Decoded.r)
        ls == Len(Decoded.s)
        N == ElementSize
    IN /\ res = "ok" /\ have
       /\ Len(sig_bytes) = 2 * N
       /\ \A i \in 1..(N - lr) : sig_bytes[i] = 0
       /\ \A i \in 1..lr : sig_bytes[N - lr + i] = Decoded.r[i]
       /\ \A i \in 1..(N - ls) : sig_bytes[N + i] = 0
       /\ \A i \in 1..ls : sig_bytes[2 * N - ls + i] = Decoded.s[i]

C9_Witness ==
  /\ op = "from_asn1" /\ res = "ok" /\ prevOp # "to_asn1"
  /\ Decoded.tag = "ok"
  /\ Len(Decoded.r) < ElementSize
  /\ Len(Decoded.s) = ElementSize
  /\ Decoded.r # <<>>

\* C10: whatever is called on a signature, its buffer keeps 2N bytes and
\* the r half it was constructed with; only normalize_s changes bytes, and
\* only bytes of the s half.
C10_Frame ==
  have =>
    /\ Len(sig_bytes) = 2 * ElementSize
    /\ r(sig_bytes, ElementSize) = r0
    /\ op \in {"r", "s", "as_ref", "to_asn1"} => sig_bytes = before
    /\ op = "normalize_s" =>
         /\ Len(before) = 2 * ElementSize
         /\ r(sig_bytes, ElementSize) = r(before, ElementSize)

C10_Witness ==
  /\ have /\ op = "normalize_s" /\ res = "true"
  /\ sig_bytes # before
  /\ r0 # Rep(0, ElementSize)
  /\ r(sig_bytes, ElementSize) = r0

====
